---------------------------- MODULE Spec2Model ----------------------------
(***************************************************************************)
(* A model of BufferCursor (src/src/buffercursor.ts): a position-tracking  *)
(* cursor over a fixed-length Node.js Buffer.                              *)
(*                                                                         *)
(* The cursor's fields are the variables buffer, pos and length.  Every    *)
(* public method is one action; the outcome of the call (returned value    *)
(* or thrown error) is recorded in res.  The Node.js Buffer primitives the *)
(* methods call (buffer.writeUInt16BE, buffer.copy, buffer.fill, ...)      *)
(* are modelled by the operators whose names start with "buf".             *)
(*                                                                         *)
(* Numbers: TLC's integers are 32 bits wide, the accessors go up to 64     *)
(* bits.  An integer value is therefore a record [neg, mag]: its sign and  *)
(* its magnitude in base 256, least significant digit first, without       *)
(* leading zero digits.  A float/double value is its IEEE-754 image, the   *)
(* byte sequence (least significant byte first) of the binary32/binary64   *)
(* number the argument rounds to.  Arguments that are offsets, lengths     *)
(* and steps range over the integers.                                      *)
(***************************************************************************)
EXTENDS Integers, Sequences, FiniteSets

VARIABLES
    buffer,     \* this.buffer: the bytes of the backing store
    pos,        \* this.pos
    length,     \* this.length
    res,        \* the outcome of the last call
    pc,         \* position of the number test (createNumberTest), "api" otherwise
    ty,         \* the number test's type
    v1,         \* the number test's first value
    v2,         \* the number test's second value
    other       \* the other cursor of a parent and the child it was sliced into

vars == <<buffer, pos, length, res, pc, ty, v1, v2, other>>
cursor == <<buffer, pos, length>>
script == <<pc, ty, v1, v2>>

---------------------------------------------------------------------------
(* Bounds of the model *)

\* length of the buffer the cursor of Spec is constructed over
MaxLen == 8
\* offsets, lengths and steps passed to the methods overrun the buffer by up to this
Slack == 1
\* length of the buffer of the parent cursor of SliceSpec
SliceLen == 3

---------------------------------------------------------------------------
(* Bytes and sequences of bytes *)

Byte == 0..255

Min(a, b) == IF a < b THEN a ELSE b
Max(a, b) == IF a > b THEN a ELSE b

Zeros(n) == [i \in 1..n |-> 0]
Rep(b, n) == [i \in 1..n |-> b]
Reverse(s) == [i \in 1..Len(s) |-> s[Len(s) + 1 - i]]

\* s[from .. to) with 0-based offsets, as Buffer.subarray / Buffer.slice clamp them
Sub(s, from, to) ==
    LET f == Min(Max(from, 0), Len(s))
        t == Min(Max(to, 0), Len(s))
    IN  IF t <= f THEN << >> ELSE [i \in 1..(t - f) |-> s[f + i]]

\* s with the bytes of d stored at 0-based offset off (d fits)
Store(s, off, d) ==
    [i \in 1..Len(s) |-> IF i > off /\ i <= off + Len(d) THEN d[i - off] ELSE s[i]]

---------------------------------------------------------------------------
(* Integer values: [neg |-> sign, mag |-> base-256 digits, least significant first] *)

Pad(d, n) == [i \in 1..n |-> IF i <= Len(d) THEN d[i] ELSE 0]

RECURSIVE Strip(_)
Strip(d) == IF d = << >> THEN d
            ELSE IF d[Len(d)] = 0 THEN Strip(SubSeq(d, 1, Len(d) - 1)) ELSE d

Nat256(d) == [neg |-> FALSE, mag |-> Strip(d)]
Neg256(d) == [neg |-> Strip(d) # << >>, mag |-> Strip(d)]

\* the digits of 2^(8 * Len(d)) - d, for d # 0: two's complement negation
Negate(d) ==
    LET nz == {i \in 1..Len(d) : d[i] # 0}
        f  == IF nz = {} THEN 0 ELSE CHOOSE i \in nz : \A j \in nz : i <= j
    IN  [i \in 1..Len(d) |->
            IF f = 0 \/ i < f THEN 0
            ELSE IF i = f THEN 256 - d[i]
            ELSE 255 - d[i]]

\* min <= v <= max of an unsigned n-byte integer: 0 <= v <= 2^(8n) - 1
FitsUnsigned(v, n) == ~v.neg /\ Len(v.mag) <= n

\* min <= v <= max of a signed n-byte integer: -2^(8n-1) <= v <= 2^(8n-1) - 1
FitsSigned(v, n) ==
    \/ Len(v.mag) < n
    \/ /\ Len(v.mag) = n
       /\ \/ v.mag[n] < 128
          \/ /\ v.neg
             /\ v.mag[n] = 128
             /\ \A j \in 1..(n - 1) : v.mag[j] = 0

\* the n bytes of an in-range integer, least significant first
IntToLE(v, n) == IF v.neg THEN Negate(Pad(v.mag, n)) ELSE Pad(v.mag, n)

\* the integer an n-byte little-endian image stands for
LEToInt(b, signed) ==
    IF signed /\ b[Len(b)] >= 128
    THEN [neg |-> TRUE, mag |-> Strip(Negate(b))]
    ELSE [neg |-> FALSE, mag |-> Strip(b)]


---------------------------------------------------------------------------
(* The fixed-width types.  readSteps and writeSteps are the second        *)
(* argument of safeMove in each read / write accessor; typeInfo is the    *)
(* Buffer primitive the accessor calls: its width in bytes, signedness,   *)
(* byte order and whether it is an IEEE-754 type.                         *)

readSteps ==
    [UInt8 |-> 1, Int8 |-> 1,
     Int16BE |-> 2, Int16LE |-> 2, UInt16BE |-> 2, UInt16LE |-> 2,
     UInt32LE |-> 4, UInt32BE |-> 4, Int32LE |-> 4, Int32BE |-> 4,
     BigUInt64LE |-> 8, BigUInt64BE |-> 8, BigInt64LE |-> 8, BigInt64BE |-> 8,
     FloatBE |-> 4, FloatLE |-> 4, DoubleBE |-> 8, DoubleLE |-> 8]

\* writeInt32BE moving by 2
writeSteps_short ==
    [UInt8 |-> 1, Int8 |-> 1,
     UInt16BE |-> 2, UInt16LE |-> 2, Int16BE |-> 2, Int16LE |-> 2,
     UInt32BE |-> 4, UInt32LE |-> 4, Int32BE |-> 2, Int32LE |-> 4,
     BigUInt64LE |-> 8, BigUInt64BE |-> 8, BigInt64LE |-> 8, BigInt64BE |-> 8,
     FloatBE |-> 4, FloatLE |-> 4, DoubleBE |-> 8, DoubleLE |-> 8]

writeSteps ==
    [UInt8 |-> 1, Int8 |-> 1,
     UInt16BE |-> 2, UInt16LE |-> 2, Int16BE |-> 2, Int16LE |-> 2,
     UInt32BE |-> 4, UInt32LE |-> 4, Int32BE |-> 4, Int32LE |-> 4,
     BigUInt64LE |-> 8, BigUInt64BE |-> 8, BigInt64LE |-> 8, BigInt64BE |-> 8,
     FloatBE |-> 4, FloatLE |-> 4, DoubleBE |-> 8, DoubleLE |-> 8]

T(w, s, l, f) == [w |-> w, signed |-> s, le |-> l, float |-> f]

typeInfo ==
    [UInt8 |-> T(1, FALSE, TRUE, FALSE),       Int8 |-> T(1, TRUE, TRUE, FALSE),
     Int16BE |-> T(2, TRUE, FALSE, FALSE),     Int16LE |-> T(2, TRUE, TRUE, FALSE),
     UInt16BE |-> T(2, FALSE, FALSE, FALSE),   UInt16LE |-> T(2, FALSE, TRUE, FALSE),
     UInt32LE |-> T(4, FALSE, TRUE, FALSE),    UInt32BE |-> T(4, FALSE, FALSE, FALSE),
     Int32LE |-> T(4, TRUE, TRUE, FALSE),      Int32BE |-> T(4, TRUE, FALSE, FALSE),
     BigUInt64LE |-> T(8, FALSE, TRUE, FALSE), BigUInt64BE |-> T(8, FALSE, FALSE, FALSE),
     BigInt64LE |-> T(8, TRUE, TRUE, FALSE),   BigInt64BE |-> T(8, TRUE, FALSE, FALSE),
     FloatBE |-> T(4, FALSE, FALSE, TRUE),     FloatLE |-> T(4, FALSE, TRUE, TRUE),
     DoubleBE |-> T(8, FALSE, FALSE, TRUE),    DoubleLE |-> T(8, FALSE, TRUE, TRUE)]

Types == DOMAIN typeInfo
IntTypes == {t \in Types : ~typeInfo[t].float}

\* a float / double value: its IEEE-754 image, least significant byte first
Float(img) == [img |-> img]

\* the bytes the primitive stores for v, in storage order
encode(t, v) ==
    LET i  == typeInfo[t]
        le == IF i.float THEN v.img ELSE IntToLE(v, i.w)
    IN  IF i.le THEN le ELSE Reverse(le)

\* the value the primitive reads from the bytes b, given in storage order
decode(t, b) ==
    LET i  == typeInfo[t]
        le == IF i.le THEN b ELSE Reverse(b)
    IN  IF i.float THEN Float(le) ELSE LEToInt(le, i.signed)

\* the primitive accepts v: integers are range-checked, floats are not
valueOk(t, v) ==
    LET i == typeInfo[t]
    IN  \/ i.float
        \/ i.signed /\ FitsSigned(v, i.w)
        \/ ~i.signed /\ FitsUnsigned(v, i.w)

---------------------------------------------------------------------------
(* Outcomes.  A call either returns (status "ok") or throws; this.pos is   *)
(* assigned only by the last statement of move and of seek, so a throw     *)
(* leaves it as it is, while the bytes are as the statements before the    *)
(* throw left them.                                                        *)

Ok(b, p, r) == [status |-> "ok", buffer |-> b, pos |-> p, err |-> << >>, ret |-> r]
Throw(kind, b, e) == [status |-> kind, buffer |-> b, pos |-> pos, err |-> e, ret |-> "none"]

\* new OverflowError(this.length, this.pos, size)
OverflowError(len, p, size) == [length |-> len, pos |-> p, size |-> size]

\* the outcome of a Buffer primitive: the bytes afterwards and what it returned
PrimOk(b, r) == [status |-> "ok", buffer |-> b, ret |-> r]
PrimThrow(kind) == [status |-> kind, buffer |-> buffer, ret |-> "none"]

---------------------------------------------------------------------------
(* Buffer primitives: buffer.readX(offset), buffer.writeX(value, offset)   *)

\* ERR_OUT_OF_RANGE / ERR_BUFFER_OUT_OF_BOUNDS when the type does not fit at offset
bufRead(t, off) ==
    LET w == typeInfo[t].w
    IN  IF off < 0 \/ off + w > Len(buffer) THEN PrimThrow("RangeError")
        ELSE PrimOk(buffer, decode(t, Sub(buffer, off, off + w)))

\* the value is range-checked, then the offset, then the bytes are stored
bufWrite(t, v, off) ==
    LET w == typeInfo[t].w
    IN  IF ~valueOk(t, v) THEN PrimThrow("RangeError")
        ELSE IF off < 0 \/ off + w > Len(buffer) THEN PrimThrow("RangeError")
        ELSE PrimOk(Store(buffer, off, encode(t, v)), off + w)

---------------------------------------------------------------------------
(* The cursor's methods, as outcomes of a call in the current state *)

\* new BufferCursor(buff): the fields of the new cursor
BufferCursor(buff) == [pos |-> 0, buffer |-> buff, length |-> Len(buff)]

\* checkMove with <= for <: it throws when exactly size bytes remain
checkMove_offByOne(size) == (size > length) \/ (length - pos <= size)

\* TRUE iff checkMove(size) throws the OverflowError
checkMove(size) == (size > length) \/ (length - pos < size)

\* move without the check against this.length
move_noUpperCheck(b, step) ==
    LET p == pos + step
    IN  IF p < 0 THEN Throw("RangeError", b, << >>)
        ELSE Ok(b, p, "void")

\* move(step), called when the bytes are b
move(b, step) ==
    LET p == pos + step
    IN  IF p < 0 THEN Throw("RangeError", b, << >>)
        ELSE IF p > length THEN Throw("RangeError", b, << >>)
        ELSE Ok(b, p, "void")

\* seek that assigns this.pos before it checks it
seek_assignFirst(b, p) ==
    IF p < 0 \/ p > length THEN [Throw("RangeError", b, << >>) EXCEPT !.pos = p]
    ELSE Ok(b, p, "this")

\* seek that refuses the end of the buffer
seek_offByOne(b, p) ==
    IF p < 0 THEN Throw("RangeError", b, << >>)
    ELSE IF p >= length THEN Throw("RangeError", b, << >>)
    ELSE Ok(b, p, "this")

\* seek(p), called when the bytes are b
seek(b, p) ==
    IF p < 0 THEN Throw("RangeError", b, << >>)
    ELSE IF p > length THEN Throw("RangeError", b, << >>)
    ELSE Ok(b, p, "this")

\* safeMove that leaves out this.move(steps)
safeMove_noMove(f, steps) ==
    IF checkMove(steps)
    THEN Throw("OverflowError", buffer, OverflowError(length, pos, steps))
    ELSE IF f.status # "ok" THEN Throw(f.status, f.buffer, << >>)
    ELSE Ok(f.buffer, pos, f.ret)

\* safeMove(func, steps), f the outcome of func()
safeMove(f, steps) ==
    IF checkMove(steps)
    THEN Throw("OverflowError", buffer, OverflowError(length, pos, steps))
    ELSE IF f.status # "ok" THEN Throw(f.status, f.buffer, << >>)
    ELSE LET m == move(f.buffer, steps)
         IN  IF m.status = "ok" THEN [m EXCEPT !.ret = f.ret] ELSE m

\* eof that is true from the last byte on
eof_lastByte == pos >= length - 1

eof == pos = length
tell == pos

\* getBuffer returning this.buffer.subarray(0, this.pos), a view of the same memory
getBuffer_subarray == [buffer |-> Sub(buffer, 0, pos), shared |-> TRUE]

\* Buffer.allocUnsafe(this.pos) is new memory, which buffer.copy fills with the
\* bytes before the position
getBuffer == [buffer |-> Sub(buffer, 0, pos), shared |-> FALSE]

\* readInt16LE calling this.buffer.readInt16BE
readCalls_swapped(t) == IF t = "Int16LE" THEN "Int16BE" ELSE t

\* writeUInt16LE calling this.buffer.writeUInt16BE
writeCalls_swapped(t) == IF t = "UInt16LE" THEN "UInt16BE" ELSE t

\* the Buffer primitive each accessor calls: readX() calls this.buffer.readX,
\* writeX(value) calls this.buffer.writeX
readCalls(t) == t
writeCalls(t) == t

\* a read that passes offset 0 to the Buffer method instead of this.pos
readNumber_atStart(t) == safeMove(bufRead(readCalls(t), 0), readSteps[t])

\* readUInt8() .. readDoubleLE()
readNumber(t) == safeMove(bufRead(readCalls(t), pos), readSteps[t])

\* a write that passes offset 0 to the Buffer method instead of this.pos
writeNumber_atStart(t, v) ==
    LET o == safeMove(bufWrite(writeCalls(t), v, 0), writeSteps[t])
    IN  IF o.status = "ok" THEN [o EXCEPT !.ret = "this"] ELSE o

\* writeUInt8(value) .. writeDoubleLE(value)
writeNumber(t, v) ==
    LET o == safeMove(bufWrite(writeCalls(t), v, pos), writeSteps[t])
    IN  IF o.status = "ok" THEN [o EXCEPT !.ret = "this"] ELSE o

---------------------------------------------------------------------------
(* Buffer primitives of the bulk methods.  A text is a sequence of         *)
(* character codes below 0x800; an optional argument is << >> when it is   *)
(* left out and <<x>> when it is given.                                    *)

Given(a) == a # << >>

\* the bytes of one character
charBytes(enc, c) ==
    IF enc = "latin1" THEN <<c % 256>>
    ELSE IF c < 128 THEN <<c>>
    ELSE <<192 + (c \div 64), 128 + (c % 64)>>

RECURSIVE textBytes(_, _, _)
\* the bytes of the longest prefix of whole characters of text that fits in max bytes
textBytes(enc, text, max) ==
    IF text = << >> THEN << >>
    ELSE LET h == charBytes(enc, Head(text))
         IN  IF Len(h) > max THEN << >>
             ELSE h \o textBytes(enc, Tail(text), max - Len(h))

\* buffer.toString(encoding, start, end) of bytes that are ASCII or no UTF-8 at all:
\* latin1 gives each byte as a character, utf8 gives U+FFFD for a byte from 0x80 on
bufToString(enc, start, end) ==
    LET b == Sub(buffer, start, end)
    IN  [i \in 1..Len(b) |-> IF enc = "latin1" \/ b[i] < 128 THEN b[i] ELSE 65533]

\* buffer.write(string, offset, length, encoding): length is validated against
\* [0, buffer.length], clamped to what remains, and whole characters are stored
bufWriteText(text, off, len, enc) ==
    IF off < 0 \/ off > Len(buffer) THEN PrimThrow("RangeError")
    ELSE IF len < 0 \/ len > Len(buffer) THEN PrimThrow("RangeError")
    ELSE LET d == textBytes(enc, text, Min(len, Len(buffer) - off))
         IN  PrimOk(Store(buffer, off, d), Len(d))

\* source.copy(buffer, targetStart, sourceStart, sourceEnd): negative arguments and
\* a sourceStart past the source throw; the copy is cut to what the source holds
\* and to what fits in the target
bufCopy(source, targetStart, sourceStart, sourceEnd) ==
    IF targetStart < 0 THEN PrimThrow("RangeError")
    ELSE IF sourceStart < 0 \/ sourceStart > Len(source) THEN PrimThrow("RangeError")
    ELSE IF sourceEnd < 0 THEN PrimThrow("RangeError")
    ELSE IF targetStart >= Len(buffer) \/ sourceStart >= sourceEnd THEN PrimOk(buffer, 0)
    ELSE LET nb == Min(Min(sourceEnd - sourceStart, Len(buffer) - targetStart),
                       Len(source) - sourceStart)
         IN  PrimOk(Store(buffer, targetStart, Sub(source, sourceStart, sourceStart + nb)), nb)

\* the byte a fill value puts at the i-th filled place (i from 0)
fillByte(value, i) ==
    IF value.kind = "number" THEN value.n % 256
    ELSE value.pattern[(i % Len(value.pattern)) + 1]

\* buffer.fill(value, offset, end): end is validated against [0, buffer.length];
\* nothing is filled when offset >= end
bufFill(value, off, end) ==
    IF off < 0 THEN PrimThrow("RangeError")
    ELSE IF end < 0 \/ end > Len(buffer) THEN PrimThrow("RangeError")
    ELSE IF off >= end THEN PrimOk(buffer, "buffer")
    ELSE PrimOk([i \in 1..Len(buffer) |->
                    IF i > off /\ i <= end THEN fillByte(value, i - 1 - off) ELSE buffer[i]],
                "buffer")

---------------------------------------------------------------------------
(* The bulk methods *)

\* const end = length === undefined ? this.length : this.pos + length
endOf(len) == IF Given(len) THEN pos + len[1] ELSE length

\* new BufferCursor(Buffer.from(this.buffer.subarray(this.pos, end))): a copy
subCursor_copy(end) ==
    LET c == BufferCursor(Sub(buffer, pos, end))
    IN  [offset |-> pos, buffer |-> c.buffer, length |-> c.length, pos |-> c.pos,
         shared |-> FALSE]

\* this.buffer.subarray(this.pos, end) as a new cursor: the bytes it shares with
\* this buffer start at offset
\* shared: subarray makes a view of the same memory, not a copy
subCursor(end) ==
    LET c == BufferCursor(Sub(buffer, pos, end))
    IN  [offset |-> pos, buffer |-> c.buffer, length |-> c.length, pos |-> c.pos,
         shared |-> TRUE]

\* slice over this.buffer.subarray(this.pos), a view that runs to the end of the
\* parent's bytes whatever the length asked for
slice_noEnd(len) ==
    LET end == endOf(len)
        buf == subCursor(length)
        s   == seek(buffer, end)
    IN  IF s.status = "ok" THEN [s EXCEPT !.ret = buf] ELSE s

slice(len) ==
    LET end == endOf(len)
        buf == subCursor(end)
        s   == seek(buffer, end)
    IN  IF s.status = "ok" THEN [s EXCEPT !.ret = buf] ELSE s

\* toString that makes the overflow check of the writes before it decodes
toString_checkMove(enc, len) ==
    LET end == endOf(len)
        ret == bufToString(enc, pos, end)
        s   == seek(buffer, end)
    IN  IF checkMove(end - pos)
        THEN Throw("OverflowError", buffer, OverflowError(length, pos, end - pos))
        ELSE IF s.status = "ok" THEN [s EXCEPT !.ret = ret] ELSE s

toString(enc, len) ==
    LET end == endOf(len)
        ret == bufToString(enc, pos, end)
        s   == seek(buffer, end)
    IN  IF s.status = "ok" THEN [s EXCEPT !.ret = ret] ELSE s

\* length defaults to value.length, encoding to utf8
write(value, len, enc) ==
    LET n == IF Given(len) THEN len[1] ELSE Len(value)
        e == IF Given(enc) THEN enc[1] ELSE "utf8"
        w == bufWriteText(value, pos, n, e)
    IN  IF w.status # "ok" THEN Throw(w.status, w.buffer, << >>)
        ELSE LET m == move(w.buffer, w.ret)
             IN  IF m.status = "ok" THEN [m EXCEPT !.ret = "this"] ELSE m

\* length defaults to value.length
writeBuff(value, len) ==
    LET n == IF Given(len) THEN len[1] ELSE Len(value)
        c == bufCopy(value, pos, 0, n)
    IN  IF c.status # "ok" THEN Throw(c.status, c.buffer, << >>)
        ELSE LET m == move(c.buffer, n)
             IN  IF m.status = "ok" THEN [m EXCEPT !.ret = "this"] ELSE m

fill(value, len) ==
    LET end == endOf(len)
    IN  IF checkMove(end - pos)
        THEN Throw("OverflowError", buffer, OverflowError(length, pos, end - pos))
        ELSE LET f == bufFill(value, pos, end)
             IN  IF f.status # "ok" THEN Throw(f.status, f.buffer, << >>)
                 ELSE seek(f.buffer, end)

\* a copy source: a raw Buffer or another BufferCursor; "this" is the cursor itself
Raw(b) == [cursor |-> FALSE, buffer |-> b, length |-> Len(b), pos |-> 0]
Cursor(b, p) == [cursor |-> TRUE, buffer |-> b, length |-> Len(b), pos |-> p]
This == Cursor(buffer, pos)

\* a test for undefined only: sourceStart === undefined
falsy_undefinedOnly(a) == ~Given(a)

\* if (!sourceEnd) ..., if (!sourceStart) ...: undefined and 0 are both falsy
falsy(a) == ~Given(a) \/ a[1] = 0

copy(source, sourceStart, sourceEnd) ==
    LET e == IF falsy(sourceEnd) THEN source.length ELSE sourceEnd[1]
        s == IF falsy(sourceStart) THEN (IF source.cursor THEN source.pos ELSE 0)
             ELSE sourceStart[1]
        n == e - s
    IN  IF checkMove(n)
        THEN Throw("OverflowError", buffer, OverflowError(length, pos, n))
        ELSE LET c == bufCopy(source.buffer, pos, s, e)
             IN  IF c.status # "ok" THEN Throw(c.status, c.buffer, << >>)
                 ELSE LET m == move(c.buffer, n)
                      IN  IF m.status = "ok" THEN [m EXCEPT !.ret = "this"] ELSE m

---------------------------------------------------------------------------
(* Arguments *)

Offsets == (0 - Slack)..(MaxLen + Slack)
Steps == (0 - MaxLen - Slack)..(MaxLen + Slack)
Opt(S) == {<< >>} \cup {<<x>> : x \in S}

\* per type: zero, the value whose bytes are all 0xFF, and values out of range
ApiValues(t) ==
    LET i == typeInfo[t]
    IN  IF i.float THEN {Float(Zeros(i.w)), Float(Rep(255, i.w))}
        ELSE IF i.signed
        THEN {Nat256(<< >>), Neg256(<<1>>), Nat256(Zeros(i.w - 1) \o <<128>>)}
        ELSE {Nat256(<< >>), Nat256(Rep(255, i.w)), Nat256(Zeros(i.w) \o <<1>>), Neg256(<<1>>)}

\* the bytes 0x00 and 0xFF, as the values above store them
Encodings == {"utf8", "latin1"}
Texts == {<<0>>, <<0, 0>>, <<255, 0, 255>>}
TextArgs == {a \in Texts \X Opt({0, 2, MaxLen, MaxLen + Slack, 0 - Slack}) \X Opt(Encodings) :
                (\E i \in 1..Len(a[1]) : a[1][i] > 127) => a[3] = <<"latin1">>}
Buffers == {<< >>, <<255>>, <<255, 0>>, <<0, 255, 255>>}
BuffLens == Opt({0, 1, 2, 3, MaxLen + Slack, 0 - Slack})
FillValues == {[kind |-> "number", n |-> 0], [kind |-> "number", n |-> 255],
               [kind |-> "number", n |-> 511], [kind |-> "pattern", pattern |-> <<255, 0>>]}
Sources == {Raw(<<255, 0, 255>>), Cursor(<<0, 255, 255, 0>>, 1), This}
\* the other cursor, or the Buffer kept from getBuffer, as a copy source
Other == [cursor |-> other.who # "copy", buffer |-> other.buffer, length |-> other.length,
          pos |-> other.pos, other |-> TRUE]
SourcePos == Opt({0, 1, 2, 3, 0 - Slack, MaxLen + Slack})

---------------------------------------------------------------------------
(* Actions.  A call runs the whole method and leaves its outcome in res,   *)
(* with the arguments and the position and bytes it was called with; the   *)
(* caller takes the outcome (Return) before it makes the next call.        *)

NoCall == [op |-> "none", ty |-> "-", arg |-> << >>, from |-> 0, was |-> << >>,
           status |-> "ok", err |-> << >>, ret |-> "none"]

Returned == res.op = "none"

\* The calls are made on one cursor, whose fields are buffer, pos and length.  When
\* a child has been sliced from a parent, other holds the fields of the one the
\* calls are not made on (who: "child" or "parent"), the offset of the child's
\* bytes in the parent's and whether the two are views of the same memory.  When
\* the caller has kept the Buffer that getBuffer returned, other holds it (who:
\* "copy").
NoOther == [who |-> "none", buffer |-> << >>, pos |-> 0, length |-> 0, offset |-> 0,
            shared |-> FALSE]

\* the other cursor's bytes once this cursor's bytes are b: memory that is shared
\* shows every byte stored through either view
Synced(b) ==
    IF other.who = "none" \/ ~other.shared THEN other
    ELSE IF other.who \in {"child", "copy"}
    THEN [other EXCEPT !.buffer = Sub(b, other.offset, other.offset + other.length)]
    ELSE [other EXCEPT !.buffer = Store(other.buffer, other.offset, b)]

Call(op, t, arg, out) ==
    /\ buffer' = out.buffer
    /\ pos' = out.pos
    /\ length' = length
    /\ other' = Synced(out.buffer)
    /\ res' = [op |-> op, ty |-> t, arg |-> arg, from |-> pos, was |-> buffer,
               status |-> out.status, err |-> out.err, ret |-> out.ret]

Return ==
    /\ ~Returned
    /\ pc = "api"
    /\ res' = NoCall
    /\ UNCHANGED <<cursor, script, other>>

Seek ==
    /\ Returned
    /\ \E p \in Offsets : Call("seek", "-", <<p>>, seek(buffer, p))
    /\ UNCHANGED script

Move ==
    /\ Returned
    /\ \E d \in Steps : Call("move", "-", <<d>>, move(buffer, d))
    /\ UNCHANGED script

Tell ==
    /\ Returned
    /\ Call("tell", "-", << >>, Ok(buffer, pos, tell))
    /\ UNCHANGED script

Eof ==
    /\ Returned
    /\ Call("eof", "-", << >>, Ok(buffer, pos, eof))
    /\ UNCHANGED script

GetBuffer ==
    /\ Returned
    /\ Call("getBuffer", "-", << >>, Ok(buffer, pos, getBuffer))
    /\ UNCHANGED script

ReadNumber ==
    /\ Returned
    /\ \E t \in Types : Call("read", t, << >>, readNumber(t))
    /\ UNCHANGED script

WriteNumber ==
    /\ Returned
    /\ \E t \in Types : \E v \in ApiValues(t) : Call("write", t, <<v>>, writeNumber(t, v))
    /\ UNCHANGED script

Slice ==
    /\ Returned
    /\ \E k \in Opt(Steps) : Call("slice", "-", <<k>>, slice(k))
    /\ UNCHANGED script

ToString ==
    /\ Returned
    /\ \E e \in Encodings : \E k \in Opt(Steps) : Call("toString", "-", <<e, k>>, toString(e, k))
    /\ UNCHANGED script

Write ==
    /\ Returned
    /\ \E a \in TextArgs : Call("writeText", "-", a, write(a[1], a[2], a[3]))
    /\ UNCHANGED script

WriteBuff ==
    /\ Returned
    /\ \E b \in Buffers : \E k \in BuffLens : Call("writeBuff", "-", <<b, k>>, writeBuff(b, k))
    /\ UNCHANGED script

Fill ==
    /\ Returned
    /\ \E v \in FillValues : \E k \in Opt(Steps) : Call("fill", "-", <<v, k>>, fill(v, k))
    /\ UNCHANGED script

Copy ==
    /\ Returned
    /\ \E src \in Sources \cup (IF other.who = "none" THEN {} ELSE {Other}) :
       \E s \in SourcePos : \E e \in SourcePos :
           Call("copy", "-", <<src, s, e>>, copy(src, s, e))
    /\ UNCHANGED script

\* the cursor is constructed over Buffer.alloc(n), n one of these
InitLens == {0, 1, MaxLen}

\* const bc = new BufferCursor(buff)
New(buff) ==
    /\ pos = BufferCursor(buff).pos
    /\ buffer = BufferCursor(buff).buffer
    /\ length = BufferCursor(buff).length

Init ==
    /\ \E n \in InitLens : New(Zeros(n))
    /\ res = NoCall
    /\ pc = "api"
    /\ ty = "-"
    /\ v1 = 0
    /\ v2 = 0
    /\ other = NoOther

Next ==
    \/ Seek
    \/ Move
    \/ Tell
    \/ Eof
    \/ GetBuffer
    \/ ReadNumber
    \/ WriteNumber
    \/ Slice
    \/ ToString
    \/ Write
    \/ WriteBuff
    \/ Fill
    \/ Copy
    \/ Return

Spec == Init /\ [][Next]_vars

---------------------------------------------------------------------------
(* A parent and its child: const child = parent.slice(k), and calls on     *)
(* either of the two afterwards.                                           *)

\* const child = parent.slice(k): the caller keeps the cursor slice returned
Take ==
    /\ res.op = "slice" /\ res.status = "ok"
    /\ other.who = "none"
    /\ other' = [who |-> "child", buffer |-> res.ret.buffer, pos |-> res.ret.pos,
                 length |-> res.ret.length, offset |-> res.ret.offset,
                 shared |-> res.ret.shared]
    /\ res' = NoCall
    /\ UNCHANGED <<cursor, script>>

\* the next calls are made on the other cursor
Switch ==
    /\ Returned
    /\ other.who # "none"
    /\ buffer' = other.buffer
    /\ pos' = other.pos
    /\ length' = other.length
    /\ other' = [other EXCEPT !.who = IF other.who = "child" THEN "parent" ELSE "child",
                              !.buffer = buffer, !.pos = pos, !.length = length]
    /\ UNCHANGED <<res, script>>

SliceInit ==
    /\ New(Zeros(SliceLen))
    /\ res = NoCall
    /\ pc = "api"
    /\ ty = "-"
    /\ v1 = 0
    /\ v2 = 0
    /\ other = NoOther

SliceNext ==
    \/ Seek
    \/ Move
    \/ Tell
    \/ Eof
    \/ GetBuffer
    \/ ReadNumber
    \/ WriteNumber
    \/ Slice
    \/ ToString
    \/ Write
    \/ WriteBuff
    \/ Fill
    \/ Copy
    \/ Return
    \/ Take
    \/ Switch

SliceSpec == SliceInit /\ [][SliceNext]_vars

---------------------------------------------------------------------------
(* A cursor and a Buffer that getBuffer returned: const copy =              *)
(* bc.getBuffer(), then calls on the cursor and stores into the copy.       *)

\* const copy = bc.getBuffer(): the caller keeps the Buffer returned
Keep ==
    /\ res.op = "getBuffer" /\ res.status = "ok"
    /\ other.who = "none"
    /\ other' = [who |-> "copy", buffer |-> res.ret.buffer, pos |-> 0,
                 length |-> Len(res.ret.buffer), offset |-> 0,
                 shared |-> res.ret.shared]
    /\ res' = NoCall
    /\ UNCHANGED <<cursor, script>>

\* copy[i] = v: a store into the kept Buffer reaches the cursor's bytes if and
\* only if the two are the same memory
Mutate ==
    /\ Returned
    /\ other.who = "copy"
    /\ \E i \in 1..other.length : \E v \in {0, 255} :
          LET stored == [other.buffer EXCEPT ![i] = v]
          IN  /\ other' = [other EXCEPT !.buffer = stored]
              /\ buffer' = IF other.shared THEN Store(buffer, 0, stored) ELSE buffer
              /\ res' = [NoCall EXCEPT !.op = "mutate", !.arg = <<i, v>>,
                                       !.from = pos, !.was = buffer]
    /\ UNCHANGED <<pos, length, script>>

CopyNext ==
    \/ Seek
    \/ Move
    \/ Tell
    \/ Eof
    \/ GetBuffer
    \/ ReadNumber
    \/ WriteNumber
    \/ Slice
    \/ ToString
    \/ Write
    \/ WriteBuff
    \/ Fill
    \/ Copy
    \/ Return
    \/ Keep
    \/ Mutate

CopySpec == SliceInit /\ [][CopyNext]_vars

---------------------------------------------------------------------------
(* The number test (createNumberTest): over a buffer of 2 * nrBytes zero   *)
(* bytes, write the two test values, try a third write, go back to the     *)
(* start (seek(0), or a new cursor over the bytes written, as the read     *)
(* test has it) and read three times.                                      *)

\* the nrBytes argument of each createNumberTest call
nrBytes ==
    [Int8 |-> 1, UInt8 |-> 1,
     Int16LE |-> 2, UInt16LE |-> 2, Int16BE |-> 2, UInt16BE |-> 2,
     Int32LE |-> 4, UInt32LE |-> 4, Int32BE |-> 4, UInt32BE |-> 4,
     BigInt64LE |-> 8, BigInt64BE |-> 8, BigUInt64LE |-> 8, BigUInt64BE |-> 8,
     FloatLE |-> 4, FloatBE |-> 4, DoubleLE |-> 8, DoubleBE |-> 8]

\* the testNums of each createNumberTest call: 0x55, 0x2A; 0x56D6, 0x2A53;
\* 0x56D66D54, 0x2A539423; 6257308941279456596, 3049944251414844451;
\* 1301068908.3941, 1662506964.2258 as binary32 and as binary64
testNums(t) ==
    LET i == typeInfo[t]
    IN  IF i.float /\ i.w = 4 THEN {Float(<<121, 25, 155, 78>>), Float(<<176, 47, 198, 78>>)}
        ELSE IF i.float
        THEN {Float(<<239, 56, 25, 27, 47, 99, 211, 65>>),
              Float(<<130, 115, 14, 245, 245, 197, 216, 65>>)}
        ELSE IF i.w = 1 THEN {Nat256(<<85>>), Nat256(<<42>>)}
        ELSE IF i.w = 2 THEN {Nat256(<<214, 86>>), Nat256(<<83, 42>>)}
        ELSE IF i.w = 4 THEN {Nat256(<<84, 109, 214, 86>>), Nat256(<<35, 148, 83, 42>>)}
        ELSE {Nat256(<<84, 109, 214, 86, 84, 109, 214, 86>>),
              Nat256(<<35, 148, 83, 42, 35, 148, 83, 42>>)}

\* the least and the greatest value of an integer type, and -1 or 1 beside them
Extremes(t) ==
    LET i == typeInfo[t]
    IN  IF i.float THEN {}
        ELSE IF i.signed
        THEN {Neg256(Zeros(i.w - 1) \o <<128>>), Nat256(Rep(255, i.w - 1) \o <<127>>),
              Neg256(<<1>>)}
        ELSE {Nat256(<< >>), Nat256(Rep(255, i.w)), Nat256(<<1>>)}

\* 0x1234 and 0xABCD, the values of the 16-bit scenario
Scenario(t) ==
    {v \in {Nat256(<<52, 18>>), Nat256(<<205, 171>>)} : typeInfo[t].w = 2 /\ valueOk(t, v)}

TestValues(t) == testNums(t) \cup Extremes(t) \cup Scenario(t)

\* numbersToBytes: each value written by a cursor of its own over Buffer.alloc(nrBytes)
numbersToBytes(t, n, a, b) ==
    Store(Zeros(n), 0, encode(t, a)) \o Store(Zeros(n), 0, encode(t, b))

TestInit ==
    /\ ty \in Types
    /\ v1 \in TestValues(ty)
    /\ v2 \in TestValues(ty)
    /\ New(Zeros(nrBytes[ty] * 2))
    /\ res = NoCall
    /\ pc = "write1"
    /\ other = NoOther

TestWrite ==
    /\ pc \in {"write1", "write2", "write3"}
    /\ Call("write", ty, <<IF pc = "write2" THEN v2 ELSE v1>>,
            writeNumber(ty, IF pc = "write2" THEN v2 ELSE v1))
    /\ pc' = CASE pc = "write1" -> "write2" [] pc = "write2" -> "write3" [] OTHER -> "rewind"
    /\ UNCHANGED <<ty, v1, v2>>

TestSeek ==
    /\ pc = "rewind"
    /\ Call("seek", "-", <<0>>, seek(buffer, 0))
    /\ pc' = "read1"
    /\ UNCHANGED <<ty, v1, v2>>

\* new BufferCursor(bc.buffer)
TestReopen ==
    /\ pc = "rewind"
    /\ pos' = BufferCursor(buffer).pos
    /\ buffer' = BufferCursor(buffer).buffer
    /\ length' = BufferCursor(buffer).length
    /\ res' = [NoCall EXCEPT !.op = "new", !.from = pos, !.was = buffer]
    /\ pc' = "read1"
    /\ UNCHANGED <<ty, v1, v2, other>>

TestRead ==
    /\ pc \in {"read1", "read2", "read3"}
    /\ Call("read", ty, << >>, readNumber(ty))
    /\ pc' = CASE pc = "read1" -> "read2" [] pc = "read2" -> "read3" [] OTHER -> "done"
    /\ UNCHANGED <<ty, v1, v2>>

TestNext ==
    \/ TestWrite
    \/ TestSeek
    \/ TestReopen
    \/ TestRead

TestSpec == TestInit /\ [][TestNext]_vars

---------------------------------------------------------------------------
(* The README's equivalence: buffer.readUInt16LE(10) is bc.seek(10);       *)
(* bc.readUInt16LE().  ty is the type and v1 the offset k.                 *)

\* raw buffers one byte longer than the widest type, whose bytes differ from
\* offset to offset
RawBuffers ==
    {[i \in 1..(MaxLen + 1) |-> (a * i + b) % 256] : a \in {1, 37, 255}, b \in {0, 128}}

OffsetInit ==
    /\ ty \in Types
    /\ v1 \in Offsets
    /\ v2 = 0
    /\ \E raw \in RawBuffers : New(raw)
    /\ res = NoCall
    /\ pc = "seek"
    /\ other = NoOther

\* bc.seek(k)
OffsetSeek ==
    /\ pc = "seek"
    /\ Call("seek", "-", <<v1>>, seek(buffer, v1))
    /\ pc' = "read"
    /\ UNCHANGED <<ty, v1, v2>>

\* bc.readX(), reached when seek did not throw
OffsetRead ==
    /\ pc = "read"
    /\ res.status = "ok"
    /\ Call("read", ty, << >>, readNumber(ty))
    /\ pc' = "done"
    /\ UNCHANGED <<ty, v1, v2>>

OffsetNext ==
    \/ OffsetSeek
    \/ OffsetRead

OffsetSpec == OffsetInit /\ [][OffsetNext]_vars

---------------------------------------------------------------------------
(* Draining: bc.seek(p), then bc.readX() again and again until a call      *)
(* throws.  ty is the type, v1 the position p and v2 the number of reads   *)
(* that returned.                                                          *)

DrainInit ==
    /\ \E n \in 0..MaxLen : New([i \in 1..n |-> i])
    /\ ty \in Types
    /\ v1 \in 0..length
    /\ v2 = 0
    /\ res = NoCall
    /\ pc = "seek"
    /\ other = NoOther

\* bc.seek(p)
DrainSeek ==
    /\ pc = "seek"
    /\ Call("seek", "-", <<v1>>, seek(buffer, v1))
    /\ pc' = "drain"
    /\ UNCHANGED <<ty, v1, v2>>

\* try { for (;;) { bc.readX(); count++ } } catch (e) { }
\* (no more reads than the longest buffer has bytes are followed)
DrainRead ==
    /\ pc = "drain"
    /\ v2 <= MaxLen
    /\ Call("read", ty, << >>, readNumber(ty))
    /\ v2' = IF readNumber(ty).status = "ok" THEN v2 + 1 ELSE v2
    /\ pc' = IF readNumber(ty).status = "ok" THEN "drain" ELSE "stopped"
    /\ UNCHANGED <<ty, v1>>

DrainNext ==
    \/ DrainSeek
    \/ DrainRead

\* the loop is synchronous code: a call that can be made is made
DrainSpec == DrainInit /\ [][DrainNext]_vars /\ WF_vars(DrainNext)

---------------------------------------------------------------------------
(* Properties *)

TypedOps == {"read", "write"}
WriteOps == {"write", "writeText", "writeBuff", "fill", "copy"}
Failed == res.status # "ok"

\* the width in bytes of each type: its bits / 8
WidthOf ==
    [UInt8 |-> 1, Int8 |-> 1,
     UInt16LE |-> 2, UInt16BE |-> 2, Int16LE |-> 2, Int16BE |-> 2,
     UInt32LE |-> 4, UInt32BE |-> 4, Int32LE |-> 4, Int32BE |-> 4, FloatLE |-> 4, FloatBE |-> 4,
     BigUInt64LE |-> 8, BigUInt64BE |-> 8, BigInt64LE |-> 8, BigInt64BE |-> 8,
     DoubleLE |-> 8, DoubleBE |-> 8]

\* C1: the position is 0 right after construction; in every state reached by any
\* sequence of calls, failed or not, 0 <= position <= length, and the length is the
\* length of the buffer and never changes.
C1_PositionWithinBuffer ==
    /\ pos = 0
    /\ [](0 <= pos /\ pos <= length /\ length = Len(buffer))
    /\ [][length' = length /\ Len(buffer') = Len(buffer)]_vars

\* a call failed at the end of the buffer, after calls that moved the position there
C1_Witness ==
    /\ res.op = "move" /\ res.status = "RangeError"
    /\ pos = length /\ length = MaxLen

\* C2: after a call that failed, tell() is what it was before the call.
C2_FailureKeepsPosition == Failed => pos = res.from

\* a fill that overflows away from the start of the buffer
C2_Witness ==
    /\ res.op = "fill" /\ res.status = "OverflowError"
    /\ res.from = MaxLen - 1 /\ pos = MaxLen - 1

\* C3: after a write operation that failed (a typed write, fill, copy, write(text),
\* writeBuff), every byte of the buffer is what it was before the call.
C3_FailedWriteKeepsBytes == (res.op \in WriteOps /\ Failed) => buffer = res.was

\* C4: a typed read or write of width n at position p of a buffer of length L fails
\* with the OverflowError of (L, p, n) if L - p < n, and succeeds and leaves the
\* position at L if L - p = n.
C4_OverflowBoundary ==
    res.op \in TypedOps =>
        LET n == WidthOf[res.ty]
            p == res.from
        IN  /\ length - p < n =>
                /\ res.status = "OverflowError"
                /\ res.err = [length |-> length, pos |-> p, size |-> n]
            /\ length - p = n => (res.status = "ok" /\ pos = length)

\* C5: a typed read or write that succeeds advances the position by the width of
\* its type.
C5_AdvanceByWidth ==
    (res.op \in TypedOps /\ ~Failed) => pos = res.from + WidthOf[res.ty]

\* the last read of the README example: readUInt32BE() at 3 leaves tell() = 7
C5_Witness ==
    /\ res.op = "read" /\ res.ty = "UInt32BE" /\ res.status = "ok"
    /\ res.from = 3 /\ pos = 7


\* C6: in the number test of an integer type, over a buffer of exactly 2n bytes,
\* the first read after the two writes returns the first value written, the second
\* read the second, and the third read fails with the OverflowError.
C6_RoundTrip ==
    ty \in IntTypes =>
        /\ pc = "read2" => (res.status = "ok" /\ res.ret = v1)
        /\ pc = "read3" => (res.status = "ok" /\ res.ret = v2)
        /\ pc = "done" => res.status = "OverflowError"

\* the least 16-bit value and -1 have been written and read back little-endian
C6_Witness ==
    /\ pc = "done" /\ ty = "Int16LE" /\ res.op = "read"
    /\ v1 = Neg256(<<0, 128>>) /\ v2 = Neg256(<<1>>)

BigEndian == {"UInt16BE", "Int16BE", "UInt32BE", "Int32BE", "BigUInt64BE", "BigInt64BE"}

RECURSIVE Sum256(_, _, _)
\* the digits of a + b + carry, for digit sequences of one length
Sum256(a, b, carry) ==
    IF a = << >> THEN <<carry>>
    ELSE LET d == Head(a) + Head(b) + carry
         IN  <<d % 256>> \o Sum256(Tail(a), Tail(b), d \div 256)

\* le, least significant byte first, is the n-byte representation of v: v itself,
\* or 2^(8n) + v for a negative v
Represents(le, v) ==
    IF v.neg THEN Sum256(le, Pad(v.mag, Len(le)), 0) = Zeros(Len(le)) \o <<1>>
    ELSE le = Pad(v.mag, Len(le))

\* C7: a successful integer write of width n at position p stores the value's
\* representation in the bytes [p, p + n), the most significant byte at p for a
\* big-endian accessor, the least significant byte at p for a little-endian one;
\* writeUInt16BE(0x56D6) stores 0x56, 0xD6 and writeUInt16LE(0x56D6) 0xD6, 0x56.
C7_ByteLayout ==
    (res.op = "write" /\ res.ty \in IntTypes /\ res.status = "ok") =>
        LET v   == res.arg[1]
            img == Sub(buffer, res.from, res.from + WidthOf[res.ty])
        IN  /\ Len(img) = WidthOf[res.ty]
            /\ Represents(IF res.ty \in BigEndian THEN Reverse(img) ELSE img, v)
            /\ (res.ty = "UInt16BE" /\ v = Nat256(<<214, 86>>)) => img = <<86, 214>>
            /\ (res.ty = "UInt16LE" /\ v = Nat256(<<214, 86>>)) => img = <<214, 86>>

\* writeUInt16LE(0x56D6) has stored 0xD6, 0x56 at position 0
C7_Witness ==
    /\ pc = "write2" /\ ty = "UInt16LE" /\ res.op = "write" /\ res.status = "ok"
    /\ res.arg[1] = Nat256(<<214, 86>>) /\ Sub(buffer, 0, 2) = <<214, 86>>

\* C8: in the number test the first write leaves the position at n, the second at
\* 2n with eof() true and the bytes of the first value followed by those of the
\* second, and the third write fails with the OverflowError of (2n, 2n, n) and
\* changes nothing; the UInt16BE scenario 0x1234, 0xABCD gives 12 34 AB CD.
C8_ConsecutiveWrites ==
    LET n == WidthOf[ty]
    IN  /\ pc = "write2" => (res.status = "ok" /\ pos = n)
        /\ pc = "write3" =>
            /\ res.status = "ok" /\ pos = 2 * n /\ eof
            /\ buffer = numbersToBytes(ty, n, v1, v2)
            /\ (ty = "UInt16BE" /\ v1 = Nat256(<<52, 18>>) /\ v2 = Nat256(<<205, 171>>))
                   => buffer = <<18, 52, 171, 205>>
        /\ pc = "rewind" =>
            /\ res.status = "OverflowError"
            /\ res.err = [length |-> 2 * n, pos |-> 2 * n, size |-> n]
            /\ buffer = res.was /\ pos = 2 * n

\* the scenario: 12 34 AB CD, position 4, and the third write has overflowed
C8_Witness ==
    /\ pc = "rewind" /\ ty = "UInt16BE"
    /\ v1 = Nat256(<<52, 18>>) /\ v2 = Nat256(<<205, 171>>)
    /\ buffer = <<18, 52, 171, 205>> /\ pos = 4
    /\ res.err = [length |-> 4, pos |-> 4, size |-> 2]

\* C9: seek(p) succeeds iff 0 <= p <= length and then the position is p, so that
\* eof() holds after seek(length); otherwise it fails with a RangeError and the
\* position stays; move(d) succeeds and fails as seek(position + d) does and
\* leaves the same position.
C9_SeekAndMove ==
    res.op \in {"seek", "move"} =>
        LET p == IF res.op = "seek" THEN res.arg[1] ELSE res.from + res.arg[1]
        IN  /\ res.status = "ok" <=> (0 <= p /\ p <= length)
            /\ res.status = "ok" => (pos = p /\ (eof <=> p = length))
            /\ Failed => (res.status = "RangeError" /\ pos = res.from)

\* seek(length) has succeeded and eof() is true
C9_Witness ==
    /\ res.op = "seek" /\ res.arg = <<MaxLen>> /\ res.status = "ok"
    /\ res.from = 0 /\ length = MaxLen /\ eof

\* C10: after a slice(k) that returns a cursor, the position is the position before
\* plus k, the child's position is 0 and the child's length is k; after slice() the
\* child covers [position before, length) and the position is length.
C10_SliceAdvances ==
    (res.op = "slice" /\ res.status = "ok") =>
        LET k == res.arg[1]
        IN  /\ res.ret.pos = 0
            /\ res.ret.offset = res.from
            /\ Given(k) => (pos = res.from + k[1] /\ res.ret.length = k[1])
            /\ ~Given(k) => (pos = length /\ res.ret.length = length - res.from)


---------------------------------------------------------------------------
(* Claims about a parent cursor and its child, checked under SliceSpec.    *)

\* the two cursors, whichever of them the calls are made on
Parent == IF other.who = "parent" THEN other ELSE [buffer |-> buffer, pos |-> pos, length |-> length]
Child == IF other.who = "child" THEN other ELSE [buffer |-> buffer, pos |-> pos, length |-> length]

\* C11: once child = parent.slice(k) was taken with the parent at position s, in
\* every later state and after any calls on either cursor, byte i of the child's
\* buffer is byte s + i of the parent's buffer, for every i below the child's
\* length k: a byte written through one is seen through the other.
C11_SliceAliasing ==
    other.who # "none" =>
        /\ other.offset + Child.length <= Parent.length
        /\ \A i \in 1..Child.length : Child.buffer[i] = Parent.buffer[other.offset + i]

\* a call on the child changed a byte that the parent shows at the child's offset
C11_Witness ==
    /\ other.who = "parent"
    /\ other.offset > 0
    /\ res.op \in WriteOps /\ res.status = "ok"
    /\ \E i \in 1..length : buffer[i] # res.was[i] /\ other.buffer[other.offset + i] = buffer[i]


---------------------------------------------------------------------------
(* Claims about the bulk methods, checked under Spec.                      *)

MovingOps == {"slice", "toString", "writeText", "writeBuff", "fill", "copy", "read", "write"}

\* C12: every successful call of slice, toString, write, writeBuff, fill, copy or
\* a typed read or write, whatever its arguments, leaves the position at or after
\* the position before the call.
C12_ForwardOnly ==
    (res.op \in MovingOps /\ res.status = "ok") => pos >= res.from


\* the range of the source a copy call names: an omitted sourceStart is the source
\* cursor's position (0 for a raw buffer), an omitted sourceEnd the source's length
CopyStart == IF Given(res.arg[2]) THEN res.arg[2][1]
             ELSE IF res.arg[1].cursor THEN res.arg[1].pos ELSE 0
CopyEnd == IF Given(res.arg[3]) THEN res.arg[3][1] ELSE res.arg[1].length
CopyLen == CopyEnd - CopyStart

\* C13: copy(source, sourceStart, sourceEnd) with len = sourceEnd - sourceStart
\* fails with the Overflow error when len exceeds length - position; otherwise it
\* succeeds, the bytes [position, position + len) of this buffer are the source's
\* bytes [sourceStart, sourceEnd), the position has advanced by len and the source
\* cursor's position is what it was.
C13_Copy ==
    res.op = "copy" =>
        IF CopyLen > length - res.from
        THEN res.status = "OverflowError"
        ELSE /\ res.status = "ok"
             /\ pos = res.from + CopyLen
             /\ \A i \in 0..(CopyLen - 1) :
                   /\ CopyStart + i + 1 \in 1..Len(res.arg[1].buffer)
                   /\ buffer[res.from + i + 1] = res.arg[1].buffer[CopyStart + i + 1]
             /\ ("other" \in DOMAIN res.arg[1]) => other.pos = res.arg[1].pos


\* the end a call with the optional length res.arg[2] computes: position + k, or
\* the length when k is omitted
EndOfCall == IF Given(res.arg[2]) THEN res.from + res.arg[2][1] ELSE length

\* the byte a fill value stands for at the i-th place of the range (i from 0): a
\* byte is itself, a pattern repeats
FillValueAt(value, i) ==
    IF value.kind = "number" THEN value.n ELSE value.pattern[(i % Len(value.pattern)) + 1]

\* C14: fill(value, k) with end = position + k (the length when k is omitted) fails
\* with the Overflow error when end - position bytes do not remain; otherwise it
\* succeeds, every byte in [position, end) is the fill value, every other byte is
\* what it was and the position is end.
C14_Fill ==
    res.op = "fill" =>
        IF EndOfCall - res.from > length - res.from
        THEN res.status = "OverflowError" /\ buffer = res.was
        ELSE /\ res.status = "ok"
             /\ pos = EndOfCall
             /\ \A i \in 1..length :
                   IF res.from < i /\ i <= EndOfCall
                   THEN \/ (res.arg[1].kind = "number" /\ res.arg[1].n > 255)
                        \/ buffer[i] = FillValueAt(res.arg[1], i - 1 - res.from)
                   ELSE buffer[i] = res.was[i]


\* the k of a writeBuff call: the source's full length when omitted
WriteBuffLen == IF Given(res.arg[2]) THEN res.arg[2][1] ELSE Len(res.arg[1])

\* C15: after every successful writeBuff(source, k) made at position p, byte p + i
\* of the buffer is byte i of the source for every i below k, and the position is
\* p + k; with k omitted, k is the source's length.
C15_WriteBuff ==
    (res.op = "writeBuff" /\ res.status = "ok") =>
        /\ pos = res.from + WriteBuffLen
        /\ \A i \in 0..(WriteBuffLen - 1) :
              /\ i < Len(res.arg[1])
              /\ buffer[res.from + i + 1] = res.arg[1][i + 1]


\* the number of bytes from the position on that a call names
BytesAsked ==
    CASE res.op \in TypedOps -> WidthOf[res.ty]
      [] res.op \in {"fill", "toString"} -> EndOfCall - res.from
      [] res.op = "writeBuff" -> WriteBuffLen
      [] res.op = "copy" -> CopyLen
      [] OTHER -> 0

\* C16: every typed read or write, fill, copy, writeBuff and toString that would
\* read or write bytes past the end of the buffer fails with an OverflowError.
C16_OverrunIsOverflowError ==
    (res.op \in TypedOps \cup {"fill", "copy", "writeBuff", "toString"}
        /\ res.from + BytesAsked > length)
    => res.status = "OverflowError"


\* the text that bytes decode to: latin1 takes every byte as a character, utf8
\* takes an ASCII byte as a character and a byte that is no UTF-8 as U+FFFD
Decoding(enc, bytes) ==
    [i \in 1..Len(bytes) |->
        IF enc = "utf8" /\ bytes[i] >= 128 THEN 65533 ELSE bytes[i]]

---------------------------------------------------------------------------
(* Claims about the observers.                                             *)

\* C18: getBuffer() returns a new buffer whose length is tell() and whose bytes are
\* the bytes [0, position) of the backing buffer; no later call on the cursor
\* changes a copy returned before, and a store into the copy does not change the
\* cursor's buffer.
C18_GetBufferCopies ==
    /\ [](res.op = "getBuffer" =>
            /\ res.status = "ok"
            /\ Len(res.ret.buffer) = tell
            /\ res.ret.buffer = Sub(buffer, 0, pos))
    /\ [][(other.who = "copy" /\ other'.who = "copy" /\ res'.op # "mutate")
            => other'.buffer = other.buffer]_other
    /\ [][res'.op = "mutate" => buffer' = buffer]_buffer

\* a write through the cursor changed a byte below the position the copy was taken
\* at, and the copy kept its own byte
C18_Witness ==
    /\ other.who = "copy"
    /\ res.op \in WriteOps /\ res.status = "ok"
    /\ \E i \in 1..other.length : buffer[i] # res.was[i] /\ other.buffer[i] = res.was[i]


Observers == {"tell", "eof", "getBuffer"}

\* C19: in every reachable state tell(), eof() and getBuffer() return normally and
\* leave the position and every byte of the buffer as they were; tell() returns the
\* position and eof() returns true exactly when the position is the length.
C19_PureObservers ==
    res.op \in Observers =>
        /\ res.status = "ok"
        /\ pos = res.from
        /\ buffer = res.was
        /\ res.op = "tell" => res.ret = res.from
        /\ res.op = "eof" => (res.ret <=> (res.from = length))

\* eof() answered false one byte before the end of a buffer that was written to
C19_Witness ==
    /\ res.op = "eof"
    /\ res.ret = FALSE
    /\ pos = length - 1
    /\ \E i \in 1..length : buffer[i] # 0


---------------------------------------------------------------------------
(* Claim about the README's equivalence, checked under OffsetSpec.         *)

\* C20: for every typed read readX of width n and every offset k with 0 <= k and
\* k + n <= length, bc.seek(k) followed by bc.readX() returns what the raw
\* buffer's readX(k) returns and leaves the position at k + n.
C20_OffsetEquivalence ==
    (0 <= v1 /\ v1 + WidthOf[ty] <= length) =>
        /\ pc = "read" => (res.op = "seek" /\ res.status = "ok" /\ pos = v1)
        /\ pc = "done" =>
              /\ res.op = "read" /\ res.status = "ok"
              /\ res.ret = bufRead(ty, v1).ret
              /\ pos = v1 + WidthOf[ty]

\* the README's case at an offset inside the buffer: the last two bytes read as
\* UInt16LE
C20_Witness ==
    /\ pc = "done"
    /\ ty = "UInt16LE"
    /\ v1 = length - 2
    /\ res.op = "read" /\ res.status = "ok"
    /\ pos = length


---------------------------------------------------------------------------
(* Claims about the observed behaviour of copy, slices and typed accesses. *)

\* C21: a copy with an explicit sourceStart of 0 does what the same copy with
\* sourceStart omitted does; from a source cursor at position q > 0 it copies the
\* source's bytes [q, e) and advances this cursor by e - q, and from a raw buffer
\* it copies the bytes [0, e).
C21_ZeroStartIsOmitted ==
    /\ [][(res'.op = "copy" /\ res'.arg[2] = <<0>>) =>
            LET o == copy(res'.arg[1], << >>, res'.arg[3])
            IN  /\ res'.status = o.status
                /\ buffer' = o.buffer
                /\ pos' = o.pos]_vars
    /\ [](LET src == res.arg[1]
              q   == IF src.cursor THEN src.pos ELSE 0
              e   == res.arg[3][1]
          IN  (/\ res.op = "copy" /\ res.arg[2] = <<0>> /\ Given(res.arg[3])
               /\ (src.cursor => q > 0)
               /\ q <= e /\ e <= src.length /\ e > 0
               /\ e - q <= length - res.from)
              => /\ res.status = "ok"
                 /\ pos = res.from + (e - q)
                 /\ Sub(buffer, res.from, pos) = Sub(src.buffer, q, e))

\* copy(source, 0, e) from a source cursor at q > 0 stored source[q], which differs
\* from source[0], and advanced by e - q
C21_Witness ==
    /\ res.op = "copy" /\ res.status = "ok"
    /\ res.arg[2] = <<0>> /\ Given(res.arg[3])
    /\ res.arg[1].cursor /\ res.arg[1].pos > 0
    /\ pos = res.from + res.arg[3][1] - res.arg[1].pos
    /\ pos > res.from
    /\ buffer[res.from + 1] = res.arg[1].buffer[res.arg[1].pos + 1]
    /\ buffer[res.from + 1] # res.arg[1].buffer[1]


\* the bytes [s, s + k) a slice call names: none when k is negative, the rest of
\* the buffer when k is omitted
SliceAsked == IF Given(res.arg[1]) THEN Max(0, res.arg[1][1]) ELSE length - res.from

\* C22: once child = parent.slice(k) was taken with the parent at position s, the
\* child's bytes lie inside the parent's bytes [s, s + k); no call on the child
\* changes a parent byte outside them or reads past them, no call on the child
\* changes the parent's position and no call on the parent changes the child's.
C22_SliceContainment ==
    /\ [][(other.who = "none" /\ other'.who = "child") =>
            /\ other'.offset = res.from
            /\ other'.length <= SliceAsked
            /\ other'.pos = 0]_other
    /\ [][(other.who # "none" /\ other'.who = other.who) =>
            /\ other'.pos = other.pos
            /\ other'.offset = other.offset
            /\ other.who = "parent" =>
                  \A i \in 1..other.length :
                      (i <= other.offset \/ i > other.offset + length)
                          => other'.buffer[i] = other.buffer[i]]_other
    /\ []((other.who = "parent" /\ res.op = "read" /\ res.status = "ok")
            => res.from + WidthOf[res.ty] <= length)

\* a write through a child that has parent bytes before and after its own changed
\* the child's byte only, while the parent stood at another position
C22_Witness ==
    /\ other.who = "parent"
    /\ other.offset > 0
    /\ other.offset + length < other.length
    /\ length > 0
    /\ res.op \in WriteOps /\ res.status = "ok"
    /\ buffer # res.was
    /\ other.pos # pos


\* C23: a successful typed write of width n at position p leaves every byte of the
\* buffer outside [p, p + n) as it was, and a typed read, successful or failed,
\* leaves every byte as it was.
C23_TypedFrame ==
    /\ (res.op = "write" /\ res.status = "ok") =>
          \A i \in 1..length :
              (i <= res.from \/ i > res.from + WidthOf[res.ty]) => buffer[i] = res.was[i]
    /\ res.op = "read" => buffer = res.was

\* a two-byte write between a byte written before and bytes after changed its own
\* two bytes and kept the byte before
C23_Witness ==
    /\ res.op = "write" /\ res.status = "ok"
    /\ WidthOf[res.ty] = 2
    /\ res.from = 1 /\ length = MaxLen
    /\ res.was[1] = 255 /\ buffer[1] = 255
    /\ buffer[2] # res.was[2] /\ buffer[3] # res.was[3]


---------------------------------------------------------------------------
(* Claim about draining a buffer, checked under DrainSpec.                 *)

\* C24: from any position p of a buffer of length L, reads of one type of width n
\* repeated until one fails come to an end; exactly floor((L - p) / n) of them
\* succeed (L - p for readUInt8) and the first call that fails fails with the
\* Overflow error; with n = 1 the cursor reaches eof() and a read fails exactly
\* when eof() is true.
C24_DrainingTerminates ==
    /\ <>(pc = "stopped" /\ (WidthOf[ty] = 1 => eof))
    /\ [](pc = "stopped" =>
            /\ res.op = "read" /\ res.status = "OverflowError"
            /\ v2 = (length - v1) \div WidthOf[ty]
            /\ WidthOf[ty] = 1 => (v2 = length - v1 /\ eof))
    /\ []((pc \in {"drain", "stopped"} /\ res.op = "read" /\ WidthOf[ty] = 1)
            => (Failed <=> res.from = length))

\* seven bytes drained two at a time: three reads returned, the fourth failed one
\* byte before the end
C24_Witness ==
    /\ pc = "stopped"
    /\ WidthOf[ty] = 2
    /\ length = MaxLen /\ v1 = 1
    /\ v2 = 3
    /\ pos = length - 1
    /\ res.status = "OverflowError"

=============================================================================
